---- MODULE Spec2Model ----
(***************************************************************************)
(* Chapter 2 ray tracer: the Canvas (framebuffer, viewport, coordinate     *)
(* mapping), the Raytracer (ray/sphere intersection, closest hit) and the  *)
(* frame loop of main.                                                     *)
(*                                                                         *)
(* Numbers.  A C++ float is modelled as a fixed-point number: the integer  *)
(* n stands for n / Q, and every multiplication, division and square root  *)
(* rounds towards zero onto that grid (binary32 rounds onto its own grid). *)
(* +infinity is a value above every finite one.  NaN does not occur: the   *)
(* rays used never have a zero direction and the magnitudes stay far below *)
(* the overflow threshold.                                                 *)
(***************************************************************************)
EXTENDS Integers, Sequences, FiniteSets, TLC

\* ---------------------------------------------------------------- bounds
\* Grid of the fixed-point model of float: 1.0 is Q.
Q == 4
\* Largest canvas width and height explored through the Canvas interface.
MaxDim == 2
\* Longest sequence of calls made through the Canvas interface.
MaxCalls == 2
\* Largest canvas width and height rendered by the frame loop.
FrameDim == 3
\* Longest scene given to TraceRay when it is checked as a function.
MaxSpheres == 3

\* ------------------------------------------------------------- arithmetic
Abs(a) == IF a < 0 THEN -a ELSE a

Sign(a, b) == IF (a < 0) = (b < 0) THEN 1 ELSE -1

\* C++ integer division: the quotient is truncated towards zero.
Quot(a, b) == Sign(a, b) * (Abs(a) \div Abs(b))

\* std::numeric_limits<float>::infinity(): greater than every finite float.
Infinity == 2000000000

\* static_cast<float>(n), and an integer literal used as a float.
ToFloat(n) == n * Q

\* float * float.  |a * b| / Q is computed without forming a * b.
FMul(a, b) ==
    LET A == Abs(a)
        B == Abs(b)
    IN  Sign(a, b) * (A * (B \div Q) + (A * (B % Q)) \div Q)

\* float / float.
FDiv(a, b) == Quot(a * Q, b)

RECURSIVE Isqrt(_, _, _)
\* Largest r in lo..hi with r * r <= n (lo * lo <= n is given).
Isqrt(n, lo, hi) ==
    IF lo >= hi THEN lo
    ELSE LET mid == (lo + hi + 1) \div 2
         IN  IF mid * mid <= n THEN Isqrt(n, mid, hi) ELSE Isqrt(n, lo, mid - 1)

\* sqrt(float) of a value >= 0.
FSqrt(a) == Isqrt(a * Q, 0, IF a * Q < 46340 THEN a * Q ELSE 46340)

\* raymath's Vector3Subtract and Vector3DotProduct.
Vector3Subtract(v1, v2) == <<v1[1] - v2[1], v1[2] - v2[2], v1[3] - v2[3]>>

Vector3DotProduct(v1, v2) == FMul(v1[1], v2[1]) + FMul(v1[2], v2[2]) + FMul(v1[3], v2[3])

\* A vector given by its integer coordinates.
Vec(a, b, c) == <<ToFloat(a), ToFloat(b), ToFloat(c)>>

\* ------------------------------------------------------------------ state
VARIABLES
    CanvasWidth,    \* Canvas::CanvasWidth
    CanvasHeight,   \* Canvas::CanvasHeight
    ViewWidth,      \* Canvas::ViewWidth
    ViewHeight,     \* Canvas::ViewHeight
    Distance,       \* Canvas::Distance
    background,     \* Canvas::background
    renderTexture,  \* the pixels of Canvas::renderTexture, by screen coordinate
    drawn,          \* DrawPixel calls per pixel (kept by the frame loop only)
    spheres,        \* Raytracer::spheres
    last,           \* the latest call made through the interface, with its result
    calls,          \* how many calls have been made through the interface
    main            \* main's position and locals

vars == <<CanvasWidth, CanvasHeight, ViewWidth, ViewHeight, Distance, background,
          renderTexture, drawn, spheres, last, calls, main>>

canvasVars == <<CanvasWidth, CanvasHeight>>

viewVars == <<ViewWidth, ViewHeight, Distance>>

\* Colours the callers write and clear with.
Palette == {"WHITE", "RED"}

Pixels(w, h) == (0 .. w - 1) \X (0 .. h - 1)

\* ----------------------------------------------------------------- Canvas
IsInBounds_SkipsZero(x, y) == x > 0 /\ x < CanvasWidth /\ y > 0 /\ y < CanvasHeight

IsInBounds(x, y) == x >= 0 /\ x < CanvasWidth /\ y >= 0 /\ y < CanvasHeight

IsInBoundsCentered(x, y) ==
    /\ x >= Quot(-CanvasWidth, 2)
    /\ x < Quot(CanvasWidth, 2)
    /\ y >= Quot(-CanvasHeight, 2)
    /\ y < Quot(CanvasHeight, 2)

\* raylib's DrawPixel into the render texture.
DrawPixel(x, y, color) ==
    /\ renderTexture' = [renderTexture EXCEPT ![<<x, y>>] = color]
    /\ drawn' = IF <<x, y>> \in DOMAIN drawn
                THEN [drawn EXCEPT ![<<x, y>>] = @ + 1]
                ELSE drawn

PutPixel(x, y, color) ==
    IF IsInBounds(x, y)
    THEN DrawPixel(x, y, color)
    ELSE UNCHANGED <<renderTexture, drawn>>

ScreenX(x) == Quot(CanvasWidth, 2) + x

ScreenY(y) == Quot(CanvasHeight, 2) - y

PutPixelCentered(x, y, color) == PutPixel(ScreenX(x), ScreenY(y), color)

CanvasToViewPort(x, y) ==
    <<FDiv(FMul(ToFloat(x), ViewWidth), ToFloat(CanvasWidth)),
      -(FDiv(FMul(ToFloat(y), ViewHeight), ToFloat(CanvasHeight))),
      Distance>>

SetViewPort(Vx, Vy, d) ==
    /\ ViewWidth' = Vx
    /\ ViewHeight' = Vy
    /\ Distance' = d

Clear(color) ==
    /\ background' = color
    /\ renderTexture' = [p \in DOMAIN renderTexture |-> color]

GetBackground == background

\* -------------------------------------------------------------- Raytracer
Sphere(center, radius, color) == [center |-> center, radius |-> radius, color |-> color]

\* The scene the Raytracer constructor builds.
RaytracerScene ==
    << Sphere(Vec(0, -1, 3), ToFloat(1), "RED"),
       Sphere(Vec(-2, 0, 4), ToFloat(1), "GREEN"),
       Sphere(Vec(2, 0, 4), ToFloat(1), "BLUE"),
       Sphere(Vec(0, -5001, 0), ToFloat(5000), "YELLOW"),
       Sphere(Vec(0, 2, 3), ToFloat(1), "BLACK") >>

\* k1, k2, k3 and the discriminant of the ray/sphere quadratic.
Quadratic(origin, direction, sphere) ==
    LET oc == Vector3Subtract(origin, sphere.center)
        k1 == Vector3DotProduct(direction, direction)
        k2 == FMul(ToFloat(2), Vector3DotProduct(oc, direction))
        k3 == Vector3DotProduct(oc, oc) - FMul(sphere.radius, sphere.radius)
    IN  [k1 |-> k1, k2 |-> k2, k3 |-> k3,
         discriminant |-> FMul(k2, k2) - FMul(FMul(ToFloat(4), k1), k3)]

IntersectRaySphere_TangentMisses(origin, direction, sphere) ==
    LET q == Quadratic(origin, direction, sphere)
    IN  IF q.discriminant <= 0
        THEN <<Infinity, Infinity>>
        ELSE <<FDiv(-q.k2 + FSqrt(q.discriminant), FMul(ToFloat(2), q.k1)),
               FDiv(-q.k2 - FSqrt(q.discriminant), FMul(ToFloat(2), q.k1))>>

IntersectRaySphere(origin, direction, sphere) ==
    LET q == Quadratic(origin, direction, sphere)
    IN  IF q.discriminant < 0
        THEN <<Infinity, Infinity>>
        ELSE <<FDiv(-q.k2 + FSqrt(q.discriminant), FMul(ToFloat(2), q.k1)),
               FDiv(-q.k2 - FSqrt(q.discriminant), FMul(ToFloat(2), q.k1))>>

\* closest_t and closest_sphere (0 is nullptr, i is &spheres[i]).
NoHit == [closest_t |-> Infinity, closest_sphere |-> 0]

Consider_AnyInRange(closest, t, i, t_min, t_max) ==
    IF t_min < t /\ t < t_max
    THEN [closest_t |-> t, closest_sphere |-> i]
    ELSE closest

Consider_NoUpperLimit(closest, t, i, t_min, t_max) ==
    IF t < closest.closest_t /\ t_min < t
    THEN [closest_t |-> t, closest_sphere |-> i]
    ELSE closest

Consider_LaterWinsTie(closest, t, i, t_min, t_max) ==
    IF t <= closest.closest_t /\ t_min < t /\ t < t_max
    THEN [closest_t |-> t, closest_sphere |-> i]
    ELSE closest

\* One of the two tests TraceRay makes per sphere, with its update.
Consider(closest, t, i, t_min, t_max) ==
    IF t < closest.closest_t /\ t_min < t /\ t < t_max
    THEN [closest_t |-> t, closest_sphere |-> i]
    ELSE closest

RECURSIVE TraceLoop_StopsAtFirstHit(_, _, _, _, _, _, _)
TraceLoop_StopsAtFirstHit(scene, i, origin, direction, t_min, t_max, closest) ==
    IF i > Len(scene) \/ closest.closest_sphere # 0
    THEN closest
    ELSE LET r == IntersectRaySphere(origin, direction, scene[i])
             c1 == Consider(closest, r[1], i, t_min, t_max)
             c2 == Consider(c1, r[2], i, t_min, t_max)
         IN  TraceLoop_StopsAtFirstHit(scene, i + 1, origin, direction, t_min, t_max, c2)

RECURSIVE TraceLoop(_, _, _, _, _, _, _)
\* The loop over the spheres, from sphere i on.
TraceLoop(scene, i, origin, direction, t_min, t_max, closest) ==
    IF i > Len(scene)
    THEN closest
    ELSE LET r == IntersectRaySphere(origin, direction, scene[i])
             c1 == Consider(closest, r[1], i, t_min, t_max)
             c2 == Consider(c1, r[2], i, t_min, t_max)
         IN  TraceLoop(scene, i + 1, origin, direction, t_min, t_max, c2)

\* TraceRay over a given scene array and background colour.
TraceRayIn(scene, bg, origin, direction, t_min, t_max) ==
    LET closest == TraceLoop(scene, 1, origin, direction, t_min, t_max, NoHit)
    IN  IF closest.closest_sphere = 0
        THEN bg
        ELSE scene[closest.closest_sphere].color

TraceRay(origin, direction, t_min, t_max) ==
    TraceRayIn(spheres, GetBackground, origin, direction, t_min, t_max)

\* -------------------------------------------------- calls and their inputs
Ray(origin, direction, t_min, t_max) ==
    [origin |-> origin, direction |-> direction, t_min |-> t_min, t_max |-> t_max]

NoRay == Ray(Vec(0, 0, 0), Vec(0, 0, 0), 0, 0)

Call(op, x, y, color, vec, ray) ==
    [op |-> op, x |-> x, y |-> y, color |-> color, vec |-> vec, ray |-> ray]

NoCall == Call("none", 0, 0, "WHITE", Vec(0, 0, 0), NoRay)

\* Viewports the callers set; an unset viewport holds one of them as well.
ViewPorts == {Vec(1, 1, 1), Vec(1, 2, 2)}

\* main's camera.
CameraPosition == Vec(0, 0, 0)

\* Rays traced from the camera through the constructor's scene.
CameraRays ==
    { Ray(CameraPosition, d, ToFloat(1), Infinity) :
        d \in {Vec(0, 0, 1), Vec(1, 0, 0)} }

\* The state the Canvas constructor leaves for a w x h canvas.  It assigns
\* neither the viewport nor the background: each holds an indeterminate value.
Constructed(w, h) ==
    /\ CanvasWidth = w
    /\ CanvasHeight = h
    /\ \E v \in ViewPorts : ViewWidth = v[1] /\ ViewHeight = v[2] /\ Distance = v[3]
    /\ background \in Palette
    /\ renderTexture = [p \in Pixels(w, h) |-> "WHITE"]

MainIdle == [pc |-> "idle", x |-> 0, y |-> 0, direction |-> Vec(0, 0, 0), color |-> "WHITE"]

PutPixelCall ==
    /\ calls < MaxCalls
    /\ calls' = calls + 1
    /\ \E x \in -1 .. CanvasWidth, y \in -1 .. CanvasHeight, color \in Palette :
        /\ PutPixel(x, y, color)
        /\ last' = Call("PutPixel", x, y, color, Vec(0, 0, 0), NoRay)
        /\ UNCHANGED <<canvasVars, viewVars, background, spheres, main>>

PutPixelCenteredCall ==
    /\ calls < MaxCalls
    /\ calls' = calls + 1
    /\ \E x \in -Quot(CanvasWidth, 2) - 1 .. Quot(CanvasWidth, 2) + 1,
       y \in -Quot(CanvasHeight, 2) - 1 .. Quot(CanvasHeight, 2) + 1,
       color \in Palette :
        /\ PutPixelCentered(x, y, color)
        /\ last' = Call("PutPixelCentered", x, y, color, Vec(0, 0, 0), NoRay)
        /\ UNCHANGED <<canvasVars, viewVars, background, spheres, main>>

ClearCall ==
    /\ calls < MaxCalls
    /\ calls' = calls + 1
    /\ \E color \in Palette :
        /\ Clear(color)
        /\ last' = Call("Clear", 0, 0, color, Vec(0, 0, 0), NoRay)
        /\ UNCHANGED <<canvasVars, viewVars, drawn, spheres, main>>

SetViewPortCall ==
    /\ calls < MaxCalls
    /\ calls' = calls + 1
    /\ \E v \in ViewPorts :
        /\ SetViewPort(v[1], v[2], v[3])
        /\ last' = Call("SetViewPort", 0, 0, "WHITE", v, NoRay)
        /\ UNCHANGED <<canvasVars, background, renderTexture, drawn, spheres, main>>

CanvasToViewPortCall ==
    /\ calls < MaxCalls
    /\ calls' = calls + 1
    /\ \E x \in -Quot(CanvasWidth, 2) .. Quot(CanvasWidth, 2),
       y \in -Quot(CanvasHeight, 2) .. Quot(CanvasHeight, 2) :
        /\ last' = Call("CanvasToViewPort", x, y, "WHITE", CanvasToViewPort(x, y), NoRay)
        /\ UNCHANGED <<canvasVars, viewVars, background, renderTexture, drawn, spheres, main>>

TraceRayCall(rays) ==
    /\ calls < MaxCalls
    /\ calls' = calls + 1
    /\ \E r \in rays :
        /\ last' = Call("TraceRay", 0, 0, TraceRay(r.origin, r.direction, r.t_min, r.t_max),
                        Vec(0, 0, 0), r)
        /\ UNCHANGED <<canvasVars, viewVars, background, renderTexture, drawn, spheres, main>>

\* ------------------------------------- the Canvas and Raytracer interface
Init ==
    /\ \E w \in 1 .. MaxDim, h \in 1 .. MaxDim : Constructed(w, h)
    /\ spheres = RaytracerScene
    /\ drawn = << >>
    /\ last = NoCall
    /\ calls = 0
    /\ main = MainIdle

Next ==
    \/ PutPixelCall
    \/ PutPixelCenteredCall
    \/ ClearCall
    \/ SetViewPortCall
    \/ CanvasToViewPortCall
    \/ TraceRayCall(CameraRays)

Spec == Init /\ [][Next]_vars

\* ------------------------------------------------- TraceRay as a function
\* Spheres the scenes are built from: one ahead of the camera, one off the
\* axis, one behind the first, one around the camera.
SpherePool ==
    { Sphere(Vec(0, 0, 3), ToFloat(1), "RED"),
      Sphere(Vec(0, 3, 3), ToFloat(1), "GREEN"),
      Sphere(Vec(0, 0, 6), ToFloat(1), "BLUE"),
      Sphere(Vec(0, 0, 0), ToFloat(2), "BLACK") }

\* Scene arrays: up to MaxSpheres distinct spheres of the pool, in any order.
Scenes ==
    UNION { { sc \in [1 .. n -> SpherePool] : \A i, j \in 1 .. n : i # j => sc[i] # sc[j] } :
            n \in 1 .. MaxSpheres }

\* Rays and ranges: along and across the spheres, normalised or not, with
\* open, bounded, empty and inverted ranges.
TestRays ==
    { Ray(o, d, r[1], r[2]) :
        o \in {Vec(0, 0, 0), Vec(0, 0, -1), Vec(0, 1, 0)},
        d \in {Vec(0, 0, 1), Vec(0, 0, 2), Vec(1, 0, 0)},
        r \in { <<ToFloat(1), Infinity>>, <<ToFloat(1), ToFloat(10)>>,
                <<ToFloat(3), ToFloat(3)>>, <<ToFloat(10), ToFloat(1)>>,
                <<ToFloat(2), ToFloat(6)>> } }

InitTrace ==
    /\ Constructed(1, 1)
    /\ <<ViewWidth, ViewHeight, Distance>> = Vec(1, 1, 1)
    /\ spheres \in Scenes
    /\ drawn = << >>
    /\ last = NoCall
    /\ calls = 0
    /\ main = MainIdle

\* TraceRay changes nothing it reads: one call per scene shows all it does.
NextTrace == last = NoCall /\ TraceRayCall(TestRays)

SpecTrace == InitTrace /\ [][NextTrace]_vars

\* ---------------------------------------------------------- main's frame
GetWidth == CanvasWidth

GetHeight == CanvasHeight

LoopCond_Exclusive(v, size) == v < Quot(size, 2)

\* The condition of each for loop: v <= size / 2.
LoopCond(v, size) == v <= Quot(size, 2)

At(pc) == main.pc = pc

Goto(pc) == [main EXCEPT !.pc = pc]

MainSetViewPort ==
    /\ At("SetViewPort")
    /\ SetViewPort(ToFloat(1), ToFloat(1), ToFloat(1))
    /\ main' = Goto("Clear")
    /\ UNCHANGED <<canvasVars, background, renderTexture, drawn, spheres, last, calls>>

MainClear ==
    /\ At("Clear")
    /\ Clear("WHITE")
    /\ main' = [Goto("for_x") EXCEPT !.x = Quot(-GetWidth, 2)]
    /\ UNCHANGED <<canvasVars, viewVars, drawn, spheres, last, calls>>

MainForX ==
    /\ At("for_x")
    /\ main' = IF LoopCond(main.x, GetWidth)
               THEN [Goto("for_y") EXCEPT !.y = Quot(-GetHeight, 2)]
               ELSE Goto("Present")
    /\ UNCHANGED <<canvasVars, viewVars, background, renderTexture, drawn, spheres, last, calls>>

MainForY ==
    /\ At("for_y")
    /\ main' = IF LoopCond(main.y, GetHeight)
               THEN Goto("CanvasToViewPort")
               ELSE [Goto("for_x") EXCEPT !.x = @ + 1]
    /\ UNCHANGED <<canvasVars, viewVars, background, renderTexture, drawn, spheres, last, calls>>

MainCanvasToViewPort ==
    /\ At("CanvasToViewPort")
    /\ main' = [Goto("TraceRay") EXCEPT !.direction = CanvasToViewPort(main.x, main.y)]
    /\ UNCHANGED <<canvasVars, viewVars, background, renderTexture, drawn, spheres, last, calls>>

MainTraceRay ==
    /\ At("TraceRay")
    /\ main' = [Goto("PutPixelCentered") EXCEPT
                   !.color = TraceRay(CameraPosition, main.direction, ToFloat(1), Infinity)]
    /\ UNCHANGED <<canvasVars, viewVars, background, renderTexture, drawn, spheres, last, calls>>

MainPutPixelCentered ==
    /\ At("PutPixelCentered")
    /\ PutPixelCentered(main.x, main.y, main.color)
    /\ main' = [Goto("for_y") EXCEPT !.y = @ + 1]
    /\ UNCHANGED <<canvasVars, viewVars, background, spheres, last, calls>>

\* Present shows the texture; it changes nothing of the canvas.
MainPresent ==
    /\ At("Present")
    /\ main' = Goto("shown")
    /\ UNCHANGED <<canvasVars, viewVars, background, renderTexture, drawn, spheres, last, calls>>

InitMain ==
    /\ \E w \in 1 .. FrameDim, h \in 1 .. FrameDim : Constructed(w, h)
    /\ spheres = RaytracerScene
    /\ drawn = [p \in Pixels(CanvasWidth, CanvasHeight) |-> 0]
    /\ last = NoCall
    /\ calls = 0
    /\ main = [MainIdle EXCEPT !.pc = "SetViewPort"]

NextMain ==
    \/ MainSetViewPort
    \/ MainClear
    \/ MainForX
    \/ MainForY
    \/ MainCanvasToViewPort
    \/ MainTraceRay
    \/ MainPutPixelCentered
    \/ MainPresent

\* main is one thread that runs to its end: a step that can be taken is taken.
SpecMain == InitMain /\ [][NextMain]_vars /\ WF_vars(NextMain)

\* ====================================================== Canvas properties
\* The screen coordinate the centered write path computes for the latest call.
LastScreen == <<Quot(CanvasWidth, 2) + last.x, Quot(CanvasHeight, 2) - last.y>>

OnScreen(p) == 0 <= p[1] /\ p[1] < CanvasWidth /\ 0 <= p[2] /\ p[2] < CanvasHeight

\* C1: every centered coordinate (x, y) with -(W/2) <= x < W/2 and
\* -(H/2) <= y < H/2 is mapped by PutPixelCentered to (W/2 + x, H/2 - y), and
\* that screen coordinate is inside the canvas, so the pixel holds the colour
\* written.
C1_CenteredRangeIsWritten ==
    ( /\ last.op = "PutPixelCentered"
      /\ -Quot(CanvasWidth, 2) <= last.x /\ last.x < Quot(CanvasWidth, 2)
      /\ -Quot(CanvasHeight, 2) <= last.y /\ last.y < Quot(CanvasHeight, 2) )
    => /\ LastScreen = <<ScreenX(last.x), ScreenY(last.y)>>
       /\ OnScreen(LastScreen)
       /\ IsInBounds(LastScreen[1], LastScreen[2])
       /\ renderTexture[LastScreen] = last.color

\* C2: IsInBoundsCentered(x, y) holds exactly when the screen coordinate
\* PutPixelCentered computes for (x, y) passes IsInBounds, that is, exactly
\* when PutPixelCentered(x, y, c) writes a pixel.
C2_CenteredPredicateAgrees ==
    last.op = "PutPixelCentered"
    => (IsInBoundsCentered(last.x, last.y)
          <=> IsInBounds(ScreenX(last.x), ScreenY(last.y)))

\* The framebuffer after writing color at p: p alone has changed.
OnlyPixelWritten(p, color) ==
    \A q \in DOMAIN renderTexture :
        renderTexture'[q] = IF q = p THEN color ELSE renderTexture[q]

\* C3: a PutPixel outside 0 <= x < W, 0 <= y < H, and a PutPixelCentered whose
\* screen coordinate is outside it, leave every pixel, the background colour
\* and the viewport as they were; a PutPixel inside it changes the pixel
\* (x, y) to the colour and nothing else.
C3_OutOfRangeWriteIsNoOp ==
    [][ /\ (last'.op = "PutPixel" /\ ~OnScreen(<<last'.x, last'.y>>))
            => UNCHANGED <<renderTexture, background, viewVars, canvasVars>>
        /\ (last'.op = "PutPixelCentered" /\ ~OnScreen(LastScreen'))
            => UNCHANGED <<renderTexture, background, viewVars, canvasVars>>
        /\ (last'.op = "PutPixel" /\ OnScreen(<<last'.x, last'.y>>))
            => /\ OnlyPixelWritten(<<last'.x, last'.y>>, last'.color)
               /\ UNCHANGED <<background, viewVars, canvasVars>>
      ]_vars

\* A centered write that fell outside a framebuffer holding a written pixel.
C3_Witness ==
    /\ last.op = "PutPixelCentered"
    /\ ~OnScreen(LastScreen)
    /\ \E p, q \in DOMAIN renderTexture : renderTexture[p] # renderTexture[q]

\* C6: CanvasToViewPort(x, y) is (x * Vw / W, y * Vh / H, d): the vertical
\* component has the sign of y.
C6_ViewPortDirection ==
    last.op = "CanvasToViewPort"
    => /\ last.vec[1] = FDiv(FMul(ToFloat(last.x), ViewWidth), ToFloat(CanvasWidth))
       /\ last.vec[2] = FDiv(FMul(ToFloat(last.y), ViewHeight), ToFloat(CanvasHeight))
       /\ last.vec[3] = Distance

\* ==================================================== TraceRay properties
RECURSIVE RootsUpTo(_)
\* The root pairs of spheres 1 .. n of the scene for the ray of the latest call.
RootsUpTo(n) ==
    IF n = 0
    THEN << >>
    ELSE Append(RootsUpTo(n - 1),
                IntersectRaySphere(last.ray.origin, last.ray.direction, spheres[n]))

AllRoots == RootsUpTo(Len(spheres))

\* The roots of R strictly inside (t_min, t_max), each as <<sphere, 1 or 2>>.
HitsOf(R) ==
    { h \in (1 .. Len(R)) \X {1, 2} :
        last.ray.t_min < R[h[1]][h[2]] /\ R[h[1]][h[2]] < last.ray.t_max }

\* The spheres owning the least root among the hits H.
NearestOf(R, H) ==
    { h[1] : h \in { h \in H : \A g \in H : R[h[1]][h[2]] <= R[g[1]][g[2]] } }

Traced == last.op = "TraceRay"

\* C4: if some sphere has a root strictly inside (t_min, t_max), TraceRay
\* returns the colour of a sphere owning the least such root over all spheres
\* and both roots; if none has, it returns the background colour.
C4_NearestHitWins ==
    Traced =>
        LET R == AllRoots
            H == HitsOf(R)
        IN  IF H = {}
            THEN last.color = background
            ELSE \E i \in NearestOf(R, H) : last.color = spheres[i].color

\* Two spheres hit in range at different distances, the nearer one later in the
\* array and of another colour than the farther one.
C4_Witness ==
    /\ Traced
    /\ LET R == AllRoots
           H == HitsOf(R)
           N == NearestOf(R, H)
       IN  \E i \in N, j \in 1 .. Len(spheres) :
              /\ j < i
              /\ j \notin N
              /\ \E k \in {1, 2} : <<j, k>> \in H
              /\ spheres[j].color # spheres[i].color
              /\ last.color = spheres[i].color

\* C5: with t_min >= t_max TraceRay selects no sphere and returns the
\* background colour, whatever the origin, the direction and the scene.
C5_EmptyRangeIsBackground ==
    (Traced /\ last.ray.t_min >= last.ray.t_max)
    => /\ last.color = background
       /\ TraceLoop(spheres, 1, last.ray.origin, last.ray.direction,
                    last.ray.t_min, last.ray.t_max, NoHit) = NoHit

\* An empty range with a finite root of a sphere above t_min, whose colour is
\* not the background's.
C5_Witness ==
    /\ Traced
    /\ last.ray.t_min >= last.ray.t_max
    /\ LET R == AllRoots
       IN  \E i \in 1 .. Len(spheres), k \in {1, 2} :
              /\ last.ray.t_min < R[i][k]
              /\ R[i][k] < Infinity
              /\ spheres[i].color # background

\* a, b, c and the discriminant b^2 - 4ac of a sphere for the ray of the
\* latest call.
Coefficients(sphere) ==
    LET oc == Vector3Subtract(last.ray.origin, sphere.center)
        a == Vector3DotProduct(last.ray.direction, last.ray.direction)
        b == FMul(ToFloat(2), Vector3DotProduct(oc, last.ray.direction))
        c == Vector3DotProduct(oc, oc) - FMul(sphere.radius, sphere.radius)
    IN  [a |-> a, b |-> b, disc |-> FMul(b, b) - FMul(FMul(ToFloat(4), a), c)]

\* What the claim says IntersectRaySphere returns for coefficients q.
ExpectedRoots(q) ==
    IF q.disc < 0
    THEN <<Infinity, Infinity>>
    ELSE <<FDiv(-q.b + FSqrt(q.disc), FMul(ToFloat(2), q.a)),
           FDiv(-q.b - FSqrt(q.disc), FMul(ToFloat(2), q.a))>>

Finite(t) == -Infinity < t /\ t < Infinity

\* C7: for a negative discriminant b^2 - 4ac IntersectRaySphere returns
\* (+infinity, +infinity); otherwise it returns the two finite roots
\* (-b + sqrt(disc)) / (2a) and (-b - sqrt(disc)) / (2a), equal when the
\* discriminant is 0.
C7_IntersectRoots ==
    Traced =>
        LET R == AllRoots
        IN  \A i \in 1 .. Len(spheres) :
                LET q == Coefficients(spheres[i])
                IN  /\ R[i] = ExpectedRoots(q)
                    /\ q.disc >= 0 => Finite(R[i][1]) /\ Finite(R[i][2])
                    /\ q.disc = 0 => R[i][1] = R[i][2]

\* A ray that misses one sphere, touches another and crosses a third.
C7_Witness ==
    /\ Traced
    /\ LET R == AllRoots
       IN  \E i, j, k \in 1 .. Len(spheres) :
              /\ Coefficients(spheres[i]).disc < 0 /\ R[i] = <<Infinity, Infinity>>
              /\ Coefficients(spheres[j]).disc = 0 /\ Finite(R[j][1])
              /\ Coefficients(spheres[k]).disc > 0 /\ R[k][1] # R[k][2]

\* C8: when several spheres own the least root inside (t_min, t_max), TraceRay
\* returns the colour of the one with the lowest index in the scene array.
C8_FirstInSceneWinsTie ==
    Traced =>
        LET R == AllRoots
            N == NearestOf(R, HitsOf(R))
        IN  N # {} => \E i \in N : /\ \A j \in N : i <= j
                                   /\ last.color = spheres[i].color

\* Two spheres of different colours tie on the least root.
C8_Witness ==
    /\ Traced
    /\ LET R == AllRoots
           N == NearestOf(R, HitsOf(R))
       IN  \E i, j \in N :
              /\ i < j
              /\ \A m \in N : i <= m
              /\ spheres[i].color # spheres[j].color
              /\ last.color = spheres[i].color

Perms(n) == { f \in [1 .. n -> 1 .. n] : \A i, j \in 1 .. n : i # j => f[i] # f[j] }

\* The scene array with sphere f[i] at index i.
Permuted(f) == [i \in 1 .. Len(spheres) |-> spheres[f[i]]]

\* No two spheres of N have different colours.
NoColourTie(N) == \A i, j \in N : spheres[i].color = spheres[j].color

\* f keeps the spheres of N in their relative order.
KeepsOrder(f, N) ==
    \A a, b \in 1 .. Len(spheres) : (a < b /\ f[a] \in N /\ f[b] \in N) => f[a] < f[b]

TraceRayPermuted(f) ==
    TraceRayIn(Permuted(f), background, last.ray.origin, last.ray.direction,
               last.ray.t_min, last.ray.t_max)

\* C9: for every permutation of the scene array TraceRay returns the colour it
\* returns for the original order, unless two spheres of different colours
\* tie on the least in-range root and the permutation changes the relative
\* order of the tying spheres.
C9_SceneOrderIndependent ==
    Traced =>
        LET R == AllRoots
            N == NearestOf(R, HitsOf(R))
        IN  \A f \in Perms(Len(spheres)) :
                (NoColourTie(N) \/ KeepsOrder(f, N)) => TraceRayPermuted(f) = last.color

\* Three spheres, hit in range in more than one colour, one of them alone
\* nearest: every order of the array must give its colour.
C9_Witness ==
    /\ Traced
    /\ Len(spheres) >= 3
    /\ LET R == AllRoots
           H == HitsOf(R)
       IN  /\ Cardinality({ spheres[h[1]].color : h \in H }) >= 2
           /\ Cardinality(NearestOf(R, H)) = 1
    /\ last.color # background

\* ================================================== frame loop properties
\* The centered coordinate whose write lands on screen pixel p.
CenteredOf(p) == <<p[1] - Quot(CanvasWidth, 2), Quot(CanvasHeight, 2) - p[2]>>

\* The colour main traces for the centered coordinate c.
TracedFor(c) ==
    TraceRay(CameraPosition, CanvasToViewPort(c[1], c[2]), ToFloat(1), Infinity)

FrameDone == At("Present") \/ At("shown")

\* The positions of main; each but "shown" has one step, whose only guard is
\* the position.
Positions ==
    {"SetViewPort", "Clear", "for_x", "for_y", "CanvasToViewPort", "TraceRay",
     "PutPixelCentered", "Present", "shown"}

\* Iterations the loop over v has left, the current one included.
Left(v, size) == IF v > Quot(size, 2) THEN 0 ELSE Quot(size, 2) - v + 1

\* Steps of one pass of the loop over x: its test, four steps per y, and the
\* failing test of the loop over y.
PerX == 4 * (2 * Quot(CanvasHeight, 2) + 1) + 2

\* The steps main has left to "shown".
StepsLeft ==
    LET afterX == (Left(main.x, CanvasWidth) - 1) * PerX + 2
        afterY == afterX + (Left(main.y, CanvasHeight) - 1) * 4 + 1
    IN  CASE At("SetViewPort") -> (2 * Quot(CanvasWidth, 2) + 1) * PerX + 4
          [] At("Clear") -> (2 * Quot(CanvasWidth, 2) + 1) * PerX + 3
          [] At("for_x") -> Left(main.x, CanvasWidth) * PerX + 2
          [] At("for_y") -> afterX + Left(main.y, CanvasHeight) * 4 + 1
          [] At("CanvasToViewPort") -> afterY + 3
          [] At("TraceRay") -> afterY + 2
          [] At("PutPixelCentered") -> afterY + 1
          [] At("Present") -> 1
          [] At("shown") -> 0

\* C10: the frame loop (x from -(W/2) to W/2, y from -(H/2) to H/2, both
\* inclusive) terminates: every position has its step and each step leaves
\* exactly one step less to the end.  When it has terminated, every pixel
\* (sx, sy) of the canvas has been written exactly once, with the colour
\* traced for the centered coordinate (sx - W/2, H/2 - sy); an iteration whose
\* screen coordinate is outside the canvas changes no pixel.
C10_FrameWrittenOnce ==
    /\ [](main.pc \in Positions /\ StepsLeft >= 0)
    /\ [][StepsLeft' = StepsLeft - 1]_vars
    /\ [](FrameDone =>
            \A p \in Pixels(CanvasWidth, CanvasHeight) :
                /\ drawn[p] = 1
                /\ renderTexture[p] = TracedFor(CenteredOf(p)))
    /\ [][ (At("PutPixelCentered")
              /\ ~OnScreen(<<Quot(CanvasWidth, 2) + main.x, Quot(CanvasHeight, 2) - main.y>>))
           => UNCHANGED <<renderTexture, drawn>> ]_vars

\* A finished frame of even width and odd height, showing more than one colour.
C10_Witness ==
    /\ At("shown")
    /\ CanvasWidth = 2
    /\ CanvasHeight = 3
    /\ \E p, q \in DOMAIN renderTexture : renderTexture[p] # renderTexture[q]

\* ================================================== background properties
\* The latest call was a TraceRay whose ray hit no sphere in its range.
Missed ==
    /\ last.op = "TraceRay"
    /\ TraceLoop(spheres, 1, last.ray.origin, last.ray.direction,
                 last.ray.t_min, last.ray.t_max, NoHit).closest_sphere = 0

\* C11: the colour TraceRay returns on a miss is the colour the framebuffer
\* was most recently cleared to: WHITE when the miss is the first call after
\* construction (the constructor clears to WHITE), the background otherwise,
\* where the background is set by Clear to its argument and changed by no
\* other call.
C11_BackgroundIsLastCleared ==
    /\ []((Missed /\ calls = 1) => last.color = "WHITE")
    /\ [](Missed => last.color = background)
    /\ [][ IF last'.op = "Clear"
           THEN background' = last'.color
           ELSE background' = background ]_vars

====
